---- MODULE Spec2Model ----
(***************************************************************************)
(* Geodesic dome generator (DomeGenerator.py): icosahedron seeding, face   *)
(* subdivision, point / edge de-duplication, hub list, triangle search and *)
(* the three output files.                                                 *)
(*                                                                         *)
(* Coordinates are kept exact: a lattice point of a face (A, B, C) at      *)
(* frequency n is (i*A + j*B + k*C) / n with i + j + k = n, and is         *)
(* represented by its weights over the twelve seed vertices.  The seed     *)
(* vertices are in convex position, so two lattice points coincide exactly *)
(* when their weights are equal.                                           *)
(***************************************************************************)
EXTENDS Integers, Sequences, FiniteSets, TLC

VARIABLES pc, frequency_n, R_mm, Icosohedral, nPoint, Vertex_List, Face_List,
          Edge_List, Point_Hash, Hub_List, unsorted_points, spherical_points,
          edge_number_list, hub_dict, triangle_list, non_duplicates,
          Nodes_txt, Edges_txt, Triangles_txt

vars == <<pc, frequency_n, R_mm, Icosohedral, nPoint, Vertex_List, Face_List,
          Edge_List, Point_Hash, Hub_List, unsorted_points, spherical_points,
          edge_number_list, hub_dict, triangle_list, non_duplicates,
          Nodes_txt, Edges_txt, Triangles_txt>>

\* ------------------------------------------------------------------ bounds
\* Largest subdivision frequency of the runs explored.
MaxFreq == 2
\* Number of point ids that carry adjacency in the adjacency indexes the
\* triangle search is explored on.
MaxActive == 3

\* Radii of the runs explored (config.py sets 2; the spec's scenario uses 3).
RValues == {-1, 0, 2, 3}

\* --------------------------------------------------------- seeding tables
\* The twelve icosahedron vertices in the order they are created and handed
\* to Add_Vertex.
VertexNames == <<"a", "b", "c", "d", "e", "f", "g", "h", "i", "j", "k", "l">>

\* The twenty Add_Face calls, in order.
FaceTableLastFaceOff ==
  << <<"a","b","c">>, <<"a","c","d">>, <<"a","d","e">>, <<"a","e","f">>, <<"a","f","b">>,
     <<"j","k","c">>, <<"k","d","g">>, <<"g","e","h">>, <<"h","f","i">>, <<"i","b","j">>,
     <<"c","k","d">>, <<"d","g","e">>, <<"e","h","f">>, <<"f","i","b">>, <<"b","j","c">>,
     <<"l","k","j">>, <<"l","j","i">>, <<"l","i","h">>, <<"l","h","g">>, <<"l","g","j">> >>

FaceTable ==
  << <<"a","b","c">>, <<"a","c","d">>, <<"a","d","e">>, <<"a","e","f">>, <<"a","f","b">>,
     <<"j","k","c">>, <<"k","d","g">>, <<"g","e","h">>, <<"h","f","i">>, <<"i","b","j">>,
     <<"c","k","d">>, <<"d","g","e">>, <<"e","h","f">>, <<"f","i","b">>, <<"b","j","c">>,
     <<"l","k","j">>, <<"l","j","i">>, <<"l","i","h">>, <<"l","h","g">>, <<"l","g","k">> >>

\* ------------------------------------------------------------ coordinates
\* The position of seed vertex v, in units of 1 / n of the seed vertices.
SeedPosition(v, n) == [x \in {v} |-> n]

\* The point (i*A + j*B + k*C) / n for three positions A, B, C, as weights
\* over the seed vertices (only vertices with a positive weight are kept).
Interpolate(A, B, C, n, i, j, k) ==
  LET At(c, v) == IF v \in DOMAIN c THEN c[v] ELSE 0
      W(v) == (i * At(A, v) + j * At(B, v) + k * At(C, v)) \div n
  IN  [v \in {x \in DOMAIN A \cup DOMAIN B \cup DOMAIN C : W(x) > 0} |-> W(v)]

\* A Coordinates object: its point number and its cartesian position.
Coordinates(num, w) == [point_number |-> num, coord |-> w]

\* ------------------------------------------------------- face subdivision
\* Number of lattice points of one face at frequency n.
LatticeSize(n) == ((n + 1) * (n + 2)) \div 2

\* Position of lattice point (i, j) in the row-major order the lattice
\* points of a face are created in (row i holds j = 0 .. n - i).
LatticeIndex(n, i, j) == i * (n + 1) - ((i * (i - 1)) \div 2) + j

\* Lattice point (i, j) of face (A, B, C): a candidate point with a fresh id.
LatticePoint(A, B, C, n, base, i, j) ==
  Coordinates(base + LatticeIndex(n, i, j),
              Interpolate(A, B, C, n, n - i - j, i, j))

\* The cells of row i: up-pointing and down-pointing sub-triangles alternate.
RowCells(n, i) ==
  [t \in 1..(2 * (n - i) - 1) |-> <<i, (t - 1) \div 2, t % 2 = 1>>]

RECURSIVE CellsFrom(_, _)
CellsFrom(n, i) ==
  IF i >= n THEN <<>> ELSE RowCells(n, i) \o CellsFrom(n, i + 1)

\* The n^2 sub-triangles of a face.
Cells(n) == CellsFrom(n, 0)

\* The three corner points of a sub-triangle.
SubTriangle(A, B, C, n, base, cell) ==
  LET i == cell[1]
      j == cell[2]
      P(x, y) == LatticePoint(A, B, C, n, base, x, y)
  IN  IF cell[3] THEN <<P(i, j), P(i + 1, j), P(i, j + 1)>>
      ELSE <<P(i + 1, j), P(i + 1, j + 1), P(i, j + 1)>>

\* An Edge object: its two end points.
Edge(p1, p2) == [p1 |-> p1, p2 |-> p2]

\* The three edges a sub-triangle contributes.
TriangleEdges(t) == <<Edge(t[1], t[2]), Edge(t[2], t[3]), Edge(t[3], t[1])>>

RECURSIVE FaceEdgesFrom(_, _, _, _, _, _, _)
FaceEdgesFrom(A, B, C, n, base, cells, k) ==
  IF k > Len(cells) THEN <<>>
  ELSE TriangleEdges(SubTriangle(A, B, C, n, base, cells[k]))
         \o FaceEdgesFrom(A, B, C, n, base, cells, k + 1)

\* All raw edges of one subdivided face, 3 * n^2 of them.
FaceEdges(A, B, C, n, base) == FaceEdgesFrom(A, B, C, n, base, Cells(n), 1)

\* ------------------------------------------- point and edge de-duplication
\* Two positions are the same vertex when they agree within the tolerance;
\* on exact coordinates that is equality.
SamePoint(c1, c2) == c1 = c2

\* The members of an index set, ascending.
Ascending(S) ==
  LET rank == [t \in S |-> Cardinality({u \in S : u <= t})]
  IN  [k \in 1..Cardinality(S) |-> CHOOSE t \in S : rank[t] = k]

\* The end points of the edges in the order the edges mention them.
EndPoints(edges) ==
  [t \in 1..(2 * Len(edges)) |->
     IF t % 2 = 1 THEN edges[(t + 1) \div 2].p1 ELSE edges[t \div 2].p2]

\* The list of unique points, in the order the edges first mention them: an
\* end point becomes a canonical point unless an earlier end point is at
\* its position; canonical points are numbered from 1 in that order.
Point_List_From_Edges(edges) ==
  LET ends == EndPoints(edges)
      positions == {ends[t].coord : t \in 1..Len(ends)}
      FirstAt(c) ==
        LET at == {t \in 1..Len(ends) : SamePoint(ends[t].coord, c)}
        IN  CHOOSE t \in at : \A u \in at : t <= u
      first == Ascending({FirstAt(c) : c \in positions})
  IN  [k \in 1..Len(first) |-> Coordinates(k, ends[first[k]].coord)]

\* The canonical point at the position of p.
Canonical(points, p) ==
  points[CHOOSE q \in 1..Len(points) : SamePoint(points[q].coord, p.coord)]

\* Every edge re-expressed over the numbered unique points.
Create_New_Edges(edges, points) ==
  [k \in 1..Len(edges) |->
     Edge(Canonical(points, edges[k].p1), Canonical(points, edges[k].p2))]

\* The pair of point numbers of an edge.
Get_Edge_Number(e) == <<e.p1.point_number, e.p2.point_number>>

SameEdge(e1, e2) ==
  {e1.p1.point_number, e1.p2.point_number}
    = {e2.p1.point_number, e2.p2.point_number}

\* Degenerate edges dropped, one edge kept per unordered pair (first seen).
Remove_Duplicate_Edges(edges) ==
  LET kept == Ascending({k \in 1..Len(edges) :
                /\ edges[k].p1.point_number # edges[k].p2.point_number
                /\ \A q \in 1..(k - 1) : ~SameEdge(edges[q], edges[k])})
  IN  [k \in 1..Len(kept) |-> edges[kept[k]]]

\* For each point number, the numbers of the points an edge joins it to.
Hub_List_From_Edges(points, edges) ==
  [n \in 1..Len(points) |->
     {Get_Edge_Number(edges[k])[2] : k \in {q \in 1..Len(edges) :
                                         Get_Edge_Number(edges[q])[1] = n}}
     \cup
     {Get_Edge_Number(edges[k])[1] : k \in {q \in 1..Len(edges) :
                                         Get_Edge_Number(edges[q])[2] = n}}]

\* --------------------------------------------------------- triangle search
RECURSIVE SortedSeq(_)
\* The members of a finite set of integers, ascending.
SortedSeq(S) ==
  IF S = {} THEN <<>>
  ELSE LET m == CHOOSE x \in S : \A y \in S : x <= y
       IN  <<m>> \o SortedSeq(S \ {m})

\* sorted([a, b, c])
Sorted3(a, b, c) ==
  LET lo == IF a <= b /\ a <= c THEN a ELSE IF b <= c THEN b ELSE c
      hi == IF a >= b /\ a >= c THEN a ELSE IF b >= c THEN b ELSE c
  IN  <<lo, a + b + c - lo - hi, hi>>

\* range(1, len(hub_dict))
SearchRange(hub) == 1..(Cardinality(DOMAIN hub) - 1)

RECURSIVE Concat(_, _, _)
\* seqs[lo] \o ... \o seqs[hi]
Concat(seqs, lo, hi) ==
  IF lo > hi THEN <<>>
  ELSE IF lo = hi THEN seqs[lo]
  ELSE LET mid == (lo + hi) \div 2
       IN  Concat(seqs, lo, mid) \o Concat(seqs, mid + 1, hi)

ConcatAll(seqs) == Concat(seqs, 1, Len(seqs))

\* The triples appended while the outer loops are at (a, b): c runs over the
\* range in ascending order and passes when c is a neighbour of a and b is a
\* neighbour of c.
TriplesAB(hub, a, b) ==
  LET cs == SortedSeq({c \in SearchRange(hub) \cap hub[a] : b \in hub[c]})
  IN  [k \in 1..Len(cs) |-> Sorted3(a, b, cs[k])]

\* The triples appended while the outer loop is at a: b runs over the range
\* in ascending order; only neighbours of a can pass the test.
TriplesA(hub, a) ==
  LET bs == SortedSeq(SearchRange(hub) \cap hub[a])
  IN  ConcatAll([k \in 1..Len(bs) |-> TriplesAB(hub, a, bs[k])])

\* triangle_list after the three nested loops.
TriangleSearchList(hub) ==
  ConcatAll([a \in SearchRange(hub) |-> TriplesA(hub, a)])

\* Largest integer the interpreter keeps as one shared object.
SmallIntMax == 256

\* `u is not v` on list elements that came from different loop variables:
\* equal values up to SmallIntMax are one object; above it, whether equal
\* values are one object (shared) depends on the interpreter.
IsNot(u, v, shared) == u # v \/ (u > SmallIntMax /\ ~shared)

\* non_duplicates after the filtering comprehension: a triple is appended
\* when it is not in the list yet and its three ids are pairwise `is not`.
\* (An earlier equal triple that was turned down failed the same id tests,
\* so "not in the list yet" is "no earlier equal triple".)
NonDuplicates(tl, shared) ==
  LET kept == Ascending({k \in 1..Len(tl) :
                /\ \A q \in 1..(k - 1) : tl[q] # tl[k]
                /\ IsNot(tl[k][1], tl[k][2], shared)
                /\ IsNot(tl[k][2], tl[k][3], shared)
                /\ IsNot(tl[k][1], tl[k][3], shared)})
  IN  [k \in 1..Len(kept) |-> tl[kept[k]]]

\* ------------------------------------------------- coordinate conversion
RECURSIVE GCD(_, _)
GCD(x, y) == IF y = 0 THEN x ELSE GCD(y, x % y)

RECURSIVE GCDOf(_)
GCDOf(S) ==
  IF S = {} THEN 0 ELSE LET x == CHOOSE y \in S : TRUE IN GCD(x, GCDOf(S \ {x}))

\* The angular position of a weight vector: the ray it lies on, i.e. the
\* weights up to a common factor.
Ray(w) ==
  LET g == GCDOf({w[v] : v \in DOMAIN w})
  IN  [v \in DOMAIN w |-> w[v] \div g]

\* A radius is either the point's own flat-faceted distance from the origin
\* (own) or a given number.
OwnRadius == [own |-> TRUE, val |-> 0]
GivenRadius(r) == [own |-> FALSE, val |-> r]

\* The tuple (x, y, z) parsed from the point's coordinate string.
ParsePoint(p) == [w |-> p.coord, radius |-> OwnRadius]

\* (r, theta, phi) of a cartesian position.
cart2sp(xyz) == [r |-> xyz.radius, ang |-> Ray(xyz.w)]

\* (x, y, z) of a spherical position.
sp2cart(r, ang) == [w |-> ang, radius |-> r]

\* One element of spherical_points: the radius is overwritten with R_mm.
ProjectForgetsRadius(xyz, R) ==
  LET s == cart2sp(xyz) IN sp2cart(s.r, s.ang)

Project(xyz, R) ==
  LET s == cart2sp(xyz) IN sp2cart(GivenRadius(R), s.ang)

\* unsorted_points: one tuple per key of Point_Hash, in key order.
UnsortedPointsDropsLast(points) ==
  [k \in 1..(Len(points) - 1) |-> ParsePoint(points[k])]

UnsortedPoints(points) == [k \in 1..Len(points) |-> ParsePoint(points[k])]

\* edge_number_list: the number pair of every edge of Edge_List, in order.
EdgeNumberListTwice(edges) ==
  [k \in 1..Len(edges) |-> Get_Edge_Number(edges[k])]
    \o [k \in 1..Len(edges) |-> Get_Edge_Number(edges[k])]

EdgeNumberList(edges) == [k \in 1..Len(edges) |-> Get_Edge_Number(edges[k])]

\* ----------------------------------------------------------- output files
\* The three components of a position, as they are passed to format().
Components(xyz) ==
  <<[axis |-> "x", of |-> xyz], [axis |-> "y", of |-> xyz],
    [axis |-> "z", of |-> xyz]>>

\* str.format with `slots` replacement fields: the fields take the leading
\* arguments, surplus arguments are ignored.
Format(slots, args) ==
  SubSeq(args, 1, IF slots < Len(args) THEN slots ELSE Len(args))

\* Replacement fields of the three line templates.
NodeSlots == 3
EdgeSlots == 2
TriangleSlots == 2

NodeLines(pts) == [k \in 1..Len(pts) |-> Format(NodeSlots, Components(pts[k]))]
EdgeLines(es) == [k \in 1..Len(es) |-> Format(EdgeSlots, es[k])]
TriangleLines(ts) == [k \in 1..Len(ts) |-> Format(TriangleSlots, ts[k])]

\* The points written to the node file.
NodeFilePoints(ico, unsorted, spherical) ==
  IF ico = FALSE THEN spherical ELSE unsorted

\* A file on disk: untouched since before the run, or opened by it.
Untouched == [touched |-> FALSE, lines |-> <<>>]
Written(lines) == [touched |-> TRUE, lines |-> lines]

\* ------------------------------------------------------------------ state
NumVertices == 12
NumFaces == 20

\* A run starts from the configuration of config.py: the user-set radius,
\* frequency and output mode, and the point counter at 1.
Init ==
  /\ pc = "construct"
  /\ frequency_n \in 0..MaxFreq
  /\ R_mm \in RValues
  /\ Icosohedral \in BOOLEAN
  /\ nPoint = 1
  /\ Vertex_List = <<>>
  /\ Face_List = <<>>
  /\ Edge_List = <<>>
  /\ Point_Hash = <<>>
  /\ Hub_List = <<>>
  /\ unsorted_points = <<>>
  /\ spherical_points = <<>>
  /\ edge_number_list = <<>>
  /\ hub_dict = <<>>
  /\ triangle_list = <<>>
  /\ non_duplicates = <<>>
  /\ Nodes_txt = Untouched
  /\ Edges_txt = Untouched
  /\ Triangles_txt = Untouched

config == <<frequency_n, R_mm, Icosohedral>>
geometry == <<Vertex_List, Face_List, Edge_List, Point_Hash, Hub_List>>
results == <<unsorted_points, spherical_points, edge_number_list, hub_dict,
             triangle_list, non_duplicates>>
files == <<Nodes_txt, Edges_txt, Triangles_txt>>

\* -------------------------------------------------------------- the run
\* A configuration the sphere builder accepts.
ValidConfigurationIgnoresRadius(n, R) == n >= 1

ValidConfiguration(n, R) == n >= 1 /\ R > 0

\* gs = G.GeoSphere("Sphere", frequency_n, R_mm)
GeoSphere ==
  /\ pc = "construct"
  /\ pc' = IF ValidConfiguration(frequency_n, R_mm) THEN "seed"
           ELSE "config_error"
  /\ UNCHANGED <<config, nPoint, geometry, results, files>>

\* v.Set_Cartesian(..); v.Set_Point_Number(nPoint); nPoint += 1;
\* gs.Add_Vertex(v) -- for the next of the twelve vertices.
Add_Vertex ==
  /\ pc = "seed"
  /\ Vertex_List' =
       Append(Vertex_List,
              [name |-> VertexNames[Len(Vertex_List) + 1],
               point |-> Coordinates(nPoint,
                           SeedPosition(VertexNames[Len(Vertex_List) + 1],
                                        frequency_n))])
  /\ nPoint' = nPoint + 1
  /\ pc' = IF Len(Vertex_List) + 1 = NumVertices THEN "faces" ELSE "seed"
  /\ UNCHANGED <<config, Face_List, Edge_List, Point_Hash, Hub_List, results, files>>

\* The vertex object bound to a name.
Vertex(name) ==
  (CHOOSE v \in {Vertex_List[k] : k \in 1..Len(Vertex_List)} : v.name = name).point

\* gs.Add_Face(A, B, C) -- the next call of the face table: the face is
\* subdivided, its lattice points get fresh ids, its sub-triangles' edges
\* are added to the edge list.
Add_Face ==
  /\ pc = "faces"
  /\ LET face == FaceTable[Len(Face_List) + 1]
         A == Vertex(face[1])
         B == Vertex(face[2])
         C == Vertex(face[3])
     IN  /\ Face_List' = Append(Face_List, <<A, B, C>>)
         /\ Edge_List' = Edge_List \o
               FaceEdges(A.coord, B.coord, C.coord, frequency_n, nPoint)
  /\ nPoint' = nPoint + LatticeSize(frequency_n)
  /\ pc' = IF Len(Face_List) + 1 = NumFaces THEN "point_list" ELSE "faces"
  /\ UNCHANGED <<config, Vertex_List, Point_Hash, Hub_List, results, files>>

\* gs.Point_List_From_Edges()
PointListFromEdges ==
  /\ pc = "point_list"
  /\ Point_Hash' = Point_List_From_Edges(Edge_List)
  /\ pc' = "new_edges"
  /\ UNCHANGED <<config, nPoint, Vertex_List, Face_List, Edge_List, Hub_List,
                 results, files>>

\* gs.Create_New_Edges()
CreateNewEdges ==
  /\ pc = "new_edges"
  /\ Edge_List' = Create_New_Edges(Edge_List, Point_Hash)
  /\ pc' = "remove_duplicates"
  /\ UNCHANGED <<config, nPoint, Vertex_List, Face_List, Point_Hash, Hub_List,
                 results, files>>

\* gs.Remove_Duplicate_Edges()
RemoveDuplicateEdges ==
  /\ pc = "remove_duplicates"
  /\ Edge_List' = Remove_Duplicate_Edges(Edge_List)
  /\ pc' = "hub_list"
  /\ UNCHANGED <<config, nPoint, Vertex_List, Face_List, Point_Hash, Hub_List,
                 results, files>>

\* gs.Hub_List_From_Edges()
HubListFromEdges ==
  /\ pc = "hub_list"
  /\ Hub_List' = Hub_List_From_Edges(Point_Hash, Edge_List)
  /\ pc' = "collect_points"
  /\ UNCHANGED <<config, nPoint, Vertex_List, Face_List, Edge_List, Point_Hash,
                 results, files>>

\* for p in gs.Point_Hash.keys(): ... unsorted_points.append(new_tuple)
CollectPoints ==
  /\ pc = "collect_points"
  /\ unsorted_points' = UnsortedPoints(Point_Hash)
  /\ pc' = "project"
  /\ UNCHANGED <<config, nPoint, geometry, spherical_points, edge_number_list,
                 hub_dict, triangle_list, non_duplicates, files>>

\* for i in unsorted_points: cart2sp; r = R_mm; sp2cart; append
ProjectPoints ==
  /\ pc = "project"
  /\ spherical_points' =
       [k \in 1..Len(unsorted_points) |-> Project(unsorted_points[k], R_mm)]
  /\ pc' = "collect_edges"
  /\ UNCHANGED <<config, nPoint, geometry, unsorted_points, edge_number_list,
                 hub_dict, triangle_list, non_duplicates, files>>

\* for e in gs.Edge_List: edge_number_list.append(e.Get_Edge_Number())
CollectEdges ==
  /\ pc = "collect_edges"
  /\ edge_number_list' = EdgeNumberList(Edge_List)
  /\ pc' = "hub_dict"
  /\ UNCHANGED <<config, nPoint, geometry, unsorted_points, spherical_points,
                 hub_dict, triangle_list, non_duplicates, files>>

\* for i in points_hash: hub_dict[i.point_number] = i.get_points()
BuildHubDict ==
  /\ pc = "hub_dict"
  /\ hub_dict' = [n \in {Point_Hash[k].point_number : k \in 1..Len(Point_Hash)}
                    |-> Hub_List[n]]
  /\ pc' = "search"
  /\ UNCHANGED <<config, nPoint, geometry, unsorted_points, spherical_points,
                 edge_number_list, triangle_list, non_duplicates, files>>

\* The three nested loops over range(1, len(hub_dict)).
TriangleSearch ==
  /\ pc = "search"
  /\ triangle_list' = TriangleSearchList(hub_dict)
  /\ pc' = "filter"
  /\ UNCHANGED <<config, nPoint, geometry, unsorted_points, spherical_points,
                 edge_number_list, hub_dict, non_duplicates, files>>

\* [non_duplicates.append(x) for x in triangle_list if ...]
FilterTriangles ==
  /\ pc = "filter"
  /\ \E shared \in BOOLEAN :
       non_duplicates' = NonDuplicates(triangle_list, shared)
  /\ pc' = "open_nodes"
  /\ UNCHANGED <<config, nPoint, geometry, unsorted_points, spherical_points,
                 edge_number_list, hub_dict, triangle_list, files>>

\* The content of the three files when they are written in full.
NodesContent ==
  NodeLines(NodeFilePoints(Icosohedral, unsorted_points, spherical_points))
EdgesContent == EdgeLines(edge_number_list)
TrianglesContent == TriangleLines(non_duplicates)

\* What a file can hold after `with open(name, 'w') as fp: fp.write(text)`
\* raised: open failed and the file is as before, or open truncated the
\* file and only a leading part of the text reached it.
FailedWrite(before, lines) ==
  {before} \cup {Written(SubSeq(lines, 1, k)) : k \in 0..(Len(lines) - 1)}

\* with open('Nodes.txt', 'w') as fp: fp.write('\n'.join(...))
WriteNodes ==
  /\ pc = "open_nodes"
  /\ Nodes_txt' = Written(NodesContent)
  /\ pc' = "open_edges"
  /\ UNCHANGED <<config, nPoint, geometry, results, Edges_txt, Triangles_txt>>

WriteNodesFails ==
  /\ pc = "open_nodes"
  /\ Nodes_txt' \in FailedWrite(Nodes_txt, NodesContent)
  /\ pc' = "io_error"
  /\ UNCHANGED <<config, nPoint, geometry, results, Edges_txt, Triangles_txt>>

\* with open('Edges.txt', 'w') as fp: fp.write('\n'.join(...))
WriteEdges ==
  /\ pc = "open_edges"
  /\ Edges_txt' = Written(EdgesContent)
  /\ pc' = "open_triangles"
  /\ UNCHANGED <<config, nPoint, geometry, results, Nodes_txt, Triangles_txt>>

WriteEdgesFails ==
  /\ pc = "open_edges"
  /\ Edges_txt' \in FailedWrite(Edges_txt, EdgesContent)
  /\ pc' = "io_error"
  /\ UNCHANGED <<config, nPoint, geometry, results, Nodes_txt, Triangles_txt>>

\* with open('Triangles.txt', 'w') as fp: fp.write('\n'.join(...))
WriteTriangles ==
  /\ pc = "open_triangles"
  /\ Triangles_txt' = Written(TrianglesContent)
  /\ pc' = "done"
  /\ UNCHANGED <<config, nPoint, geometry, results, Nodes_txt, Edges_txt>>

WriteTrianglesFails ==
  /\ pc = "open_triangles"
  /\ Triangles_txt' \in FailedWrite(Triangles_txt, TrianglesContent)
  /\ pc' = "io_error"
  /\ UNCHANGED <<config, nPoint, geometry, results, Nodes_txt, Edges_txt>>

Next ==
  \/ GeoSphere
  \/ Add_Vertex
  \/ Add_Face
  \/ PointListFromEdges
  \/ CreateNewEdges
  \/ RemoveDuplicateEdges
  \/ HubListFromEdges
  \/ CollectPoints
  \/ ProjectPoints
  \/ CollectEdges
  \/ BuildHubDict
  \/ TriangleSearch
  \/ FilterTriangles
  \/ WriteNodes
  \/ WriteNodesFails
  \/ WriteEdges
  \/ WriteEdgesFails
  \/ WriteTriangles
  \/ WriteTrianglesFails

Spec == Init /\ [][Next]_vars

\* ------------------------------------------ the triangle search on its own
\* Sizes of the adjacency indexes explored: the smallest ones, and one whose
\* ids pass SmallIntMax.
HubSizes == {MaxActive, MaxActive + 1, SmallIntMax + MaxActive + 1}

\* The symmetric adjacency indexes over 1..N whose adjacency (self-adjacency
\* included) lies within MaxActive consecutive ids, at the low or at the high
\* end of the id range.
HubInputs ==
  UNION {UNION {
    LET active == (base + 1)..(base + MaxActive)
        pairs == {{u, v} : u \in active, v \in active}
    IN  {[n \in 1..N |-> IF n \in active THEN {m \in active : {n, m} \in E}
                          ELSE {}] : E \in SUBSET pairs}
    : base \in {0, N - MaxActive}} : N \in HubSizes}

InitTri ==
  /\ pc = "search"
  /\ frequency_n = 1
  /\ R_mm = 2
  /\ Icosohedral = FALSE
  /\ nPoint = 1
  /\ Vertex_List = <<>>
  /\ Face_List = <<>>
  /\ Edge_List = <<>>
  /\ Point_Hash = <<>>
  /\ Hub_List = <<>>
  /\ unsorted_points = <<>>
  /\ spherical_points = <<>>
  /\ edge_number_list = <<>>
  /\ hub_dict \in HubInputs
  /\ triangle_list = <<>>
  /\ non_duplicates = <<>>
  /\ Nodes_txt = Untouched
  /\ Edges_txt = Untouched
  /\ Triangles_txt = Untouched

NextTri ==
  \/ TriangleSearch
  \/ FilterTriangles

SpecTri == InitTri /\ [][NextTri]_vars

\* ------------------------------------------------------------- properties
\* The ids of a line of an index file.
LineIds(lines) == UNION {{lines[k][f] : f \in 1..Len(lines[k])} : k \in 1..Len(lines)}

\* The sorted triples of three distinct, pairwise adjacent ids of an
\* adjacency index.
ClosedTriangles(hub) ==
  {t \in UNION {{<<a, b, c>> : b \in hub[a], c \in hub[a]} : a \in DOMAIN hub} :
     /\ t[1] < t[2] /\ t[2] < t[3]
     /\ t[2] \in DOMAIN hub /\ t[3] \in DOMAIN hub
     /\ t[3] \in hub[t[2]]}

\* The position of canonical point p as the node file has to show it: at
\* radius R on the ray of p when the output is projected, the position of p
\* itself when the output is icosahedral.
ExpectedNode(p, ico, R) ==
  IF ico = FALSE
  THEN [w |-> Ray(p.coord), radius |-> GivenRadius(R)]
  ELSE [w |-> p.coord, radius |-> OwnRadius]

\* C1: a full run at frequency n ends with exactly 10*n^2 + 2 deduplicated
\* points, 30*n^2 deduplicated edges and 20*n^2 reconstructed triangles.
C1_RunCounts ==
  pc = "done" =>
    /\ Len(Point_Hash) = 10 * frequency_n * frequency_n + 2
    /\ Len(edge_number_list) = 30 * frequency_n * frequency_n
    /\ Len(non_duplicates) = 20 * frequency_n * frequency_n

\* C2: the triangle search returns exactly the closed triangles of the
\* adjacency index it is given: every sorted triple of three distinct,
\* pairwise adjacent ids of 1..N, and nothing else.
C2_SearchExact ==
  pc = "open_nodes" =>
    {non_duplicates[k] : k \in 1..Len(non_duplicates)} = ClosedTriangles(hub_dict)

\* C3: the triangle file has one line per reconstructed triangle and each
\* line carries the three point indices of its triangle.
C3_TriangleFile ==
  pc = "done" =>
    /\ Len(Triangles_txt.lines) = Len(non_duplicates)
    /\ \A k \in 1..Len(non_duplicates) : Triangles_txt.lines[k] = non_duplicates[k]

C5_NoRepeatedTriple ==
  pc = "open_nodes" =>
    /\ \A k \in 1..Len(non_duplicates) :
         Cardinality({non_duplicates[k][1], non_duplicates[k][2],
                      non_duplicates[k][3]}) = 3
    /\ \A k, q \in 1..Len(non_duplicates) :
         k # q => non_duplicates[k] # non_duplicates[q]

\* C6: after a run every point id in the edge file and in the triangle file
\* is a valid 1-based index into the node file.
C6_NoDanglingIds ==
  pc = "done" =>
    \A id \in LineIds(Edges_txt.lines) \cup LineIds(Triangles_txt.lines) :
      1 <= id /\ id <= Len(Nodes_txt.lines)

\* A finished run whose edge file refers to the last line of the node file.
C6_Witness ==
  /\ pc = "done"
  /\ frequency_n = 2
  /\ Len(Nodes_txt.lines) \in LineIds(Edges_txt.lines)
  /\ LineIds(Triangles_txt.lines) # {}

C8_NoHalfWrittenFile ==
  pc = "io_error" =>
    /\ Nodes_txt \in {Untouched, Written(NodesContent)}
    /\ Edges_txt \in {Untouched, Written(EdgesContent)}
    /\ Triangles_txt \in {Untouched, Written(TrianglesContent)}

\* C9: the seeder yields 12 points with pairwise distinct ids and 20 faces
\* over them, pairwise distinct as vertex sets, with exactly 30 undirected
\* edges, each belonging to exactly two faces.
C9_ClosedSurface ==
  pc = "point_list" =>
    LET ids == {Vertex_List[k].point.point_number : k \in 1..Len(Vertex_List)}
        corners(f) == {Face_List[f][1].point_number, Face_List[f][2].point_number,
                       Face_List[f][3].point_number}
        faces == 1..Len(Face_List)
        edgesOf(f) == {e \in SUBSET corners(f) : Cardinality(e) = 2}
        edges == UNION {edgesOf(f) : f \in faces}
    IN  /\ Len(Vertex_List) = NumVertices
        /\ Cardinality(ids) = NumVertices
        /\ \A f \in faces : corners(f) \subseteq ids /\ Cardinality(corners(f)) = 3
        /\ Cardinality({corners(f) : f \in faces}) = NumFaces
        /\ Cardinality(edges) = 30
        /\ \A e \in edges : Cardinality({f \in faces : e \in edgesOf(f)}) = 2

\* The seeder has just added its last face.
C9_Witness ==
  pc = "point_list" /\ Len(Face_List) = NumFaces /\ Len(Vertex_List) = NumVertices

DirectedEdges(face) ==
  {<<face[1].point_number, face[2].point_number>>,
   <<face[2].point_number, face[3].point_number>>,
   <<face[3].point_number, face[1].point_number>>}

\* C11: the vertex order of the 20 seeded faces is a consistent orientation:
\* no directed edge (u, v) occurs in the cyclic vertex order of more than
\* one face, so two faces sharing an edge traverse it in opposite directions.
C11_ConsistentOrientation ==
  pc = "point_list" =>
    \A f, g \in 1..Len(Face_List) :
      f # g => DirectedEdges(Face_List[f]) \cap DirectedEdges(Face_List[g]) = {}

====
